---- MODULE Spec2Model ----
(***************************************************************************)
(* A model of the risk engine of src/RiskMetrics.py: the RiskMetrics       *)
(* object (construction, cached ratio series) and its operations           *)
(* get_random, generate_replicates, lvar_and_ivar, leverages and           *)
(* recommended_leverage.                                                   *)
(*                                                                         *)
(* Numbers.  The code computes in IEEE doubles; the model computes in      *)
(* exact rationals extended with NaN and +/-inf (the values a numpy        *)
(* division by zero produces).  A standard deviation is a square root and  *)
(* is kept exact as well: a VaR is the value mu - z*sqrt(variance) of the  *)
(* vector of replicate means it was computed from, and two such values are *)
(* compared exactly (by squaring).  A rational stands for the double       *)
(* nearest to it; at this scale (small numerators and denominators) two    *)
(* values that differ as reals differ as doubles by far more than the      *)
(* spacing of the doubles.                                                 *)
(*                                                                         *)
(* Rounding.  Where values differ by a few units in the last place, the    *)
(* rounding of the doubles decides comparisons.  The model carries such    *)
(* values as the doubles next to 3/2, 3/2 + k*2^-52 for a small integer k  *)
(* (the field ulps), and computes mean, std and VaR of a vector of them    *)
(* as numpy does, rounding to nearest, ties to even, after every float     *)
(* operation whose result is not exact.  A comparison compares the         *)
(* doubles: a value of the rational scale equal to 3/2 is the double 3/2   *)
(* among them, any other value of the rational scale is far from all of    *)
(* them.  In a mean or variance taken together with values of the          *)
(* rational scale a value next to 3/2 counts as 3/2.                       *)
(***************************************************************************)
EXTENDS Integers, Sequences, FiniteSets, TLC

(***************************************************************************)
(* Rational arithmetic with the IEEE special values.                       *)
(*   [kind |-> "rat", n, d]  d > 0 : the rational n/d in lowest terms      *)
(*                           d = 0 : n = 0 NaN, n = 1 +inf, n = -1 -inf    *)
(***************************************************************************)
Abs(x) == IF x < 0 THEN -x ELSE x

Sgn(x) == IF x < 0 THEN -1 ELSE IF x > 0 THEN 1 ELSE 0

RECURSIVE Gcd(_, _)
Gcd(a, b) == IF b = 0 THEN a ELSE Gcd(b, a % b)

NaN == [kind |-> "rat", n |-> 0, d |-> 0]

PosInf == [kind |-> "rat", n |-> 1, d |-> 0]

NegInf == [kind |-> "rat", n |-> -1, d |-> 0]

\* n/d for integers n and d, d possibly 0 (a float division: x/0 is inf or NaN)
Rat(n, d) ==
    IF d = 0
    THEN [kind |-> "rat", n |-> Sgn(n), d |-> 0]
    ELSE LET g == Gcd(Abs(n), Abs(d))
             s == IF d < 0 THEN -1 ELSE 1
         IN  [kind |-> "rat", n |-> (s * n) \div g, d |-> (s * d) \div g]

Int2Rat(i) == [kind |-> "rat", n |-> i, d |-> 1]

IsNaN(x) == x.d = 0 /\ x.n = 0

IsInf(x) == x.d = 0 /\ x.n # 0

IsFinite(x) == x.d > 0

Neg(x) == [kind |-> "rat", n |-> -x.n, d |-> x.d]

Add(x, y) ==
    IF IsNaN(x) \/ IsNaN(y) THEN NaN
    ELSE IF IsInf(x) /\ IsInf(y) THEN (IF x.n = y.n THEN x ELSE NaN)
    ELSE IF IsInf(x) THEN x
    ELSE IF IsInf(y) THEN y
    ELSE LET g == Gcd(x.d, y.d)
         IN  Rat(x.n * (y.d \div g) + y.n * (x.d \div g), (x.d \div g) * y.d)

Sub(x, y) == Add(x, Neg(y))

Mul(x, y) ==
    IF IsNaN(x) \/ IsNaN(y) THEN NaN
    ELSE IF IsInf(x) \/ IsInf(y)
         THEN (IF x.n = 0 \/ y.n = 0 THEN NaN
               ELSE [kind |-> "rat", n |-> Sgn(x.n) * Sgn(y.n), d |-> 0])
    ELSE LET g1 == Gcd(Abs(x.n), y.d)
             g2 == Gcd(Abs(y.n), x.d)
         IN  Rat((x.n \div g1) * (y.n \div g2), (x.d \div g2) * (y.d \div g1))

Div(x, y) ==
    IF IsNaN(x) \/ IsNaN(y) THEN NaN
    ELSE IF IsInf(y) THEN (IF IsInf(x) THEN NaN ELSE Int2Rat(0))
    ELSE IF y.n = 0
         THEN [kind |-> "rat", n |-> Sgn(x.n), d |-> 0]
    ELSE IF IsInf(x)
         THEN [kind |-> "rat", n |-> Sgn(x.n) * Sgn(y.n), d |-> 0]
    ELSE Mul(x, Rat(y.d, y.n))

\* x < y as Python compares floats: false when either side is NaN
Less(x, y) ==
    IF IsNaN(x) \/ IsNaN(y) THEN FALSE
    ELSE IF IsInf(x) \/ IsInf(y)
         THEN (IF IsInf(x) /\ IsInf(y) THEN x.n < y.n
               ELSE IF IsInf(x) THEN x.n < 0
               ELSE y.n > 0)
    ELSE x.n * y.d < y.n * x.d

Leq(x, y) == ~IsNaN(x) /\ ~IsNaN(y) /\ ~Less(y, x)

RECURSIVE Sum(_)
Sum(s) == IF s = <<>> THEN Int2Rat(0) ELSE Add(Head(s), Sum(Tail(s)))

(***************************************************************************)
(* Doubles next to 3/2.  Near(k) is the double 3/2 + k*u, u = 2^-52 the    *)
(* spacing of the doubles in [1, 2).  A partial sum of such doubles is     *)
(* [count, s]: the double 3/2*count + s*u, s a multiple of the spacing at  *)
(* that magnitude.                                                         *)
(***************************************************************************)
Near(k) == [kind |-> "rat", n |-> 3, d |-> 2, ulps |-> k]

IsNear(x) == "ulps" \in DOMAIN x

AllNear(s) == s # <<>> /\ \A k \in 1..Len(s) : IsNear(s[k])

Ulps(s) == [k \in 1..Len(s) |-> s[k].ulps]

\* the integer nearest to s/g (g > 0), ties to the even one
RoundHalfEven(s, g) ==
    LET lo == s \div g
        r == s - lo * g
    IN  IF 2 * r < g THEN lo
        ELSE IF 2 * r > g THEN lo + 1
        ELSE IF lo % 2 = 0 THEN lo ELSE lo + 1

\* the spacing, in units of u, of the doubles around 3/2*count: the largest
\* power of two p with p <= 3/2*count, starting from p
RECURSIVE SpacingFrom(_, _)
SpacingFrom(count, p) == IF 4 * p <= 3 * count THEN SpacingFrom(count, 2 * p) ELSE p

Spacing(count) == SpacingFrom(count, 1)

\* the float sum of two partial sums
NearAdd(x, y) ==
    LET c == x.count + y.count
        g == Spacing(c)
    IN  [count |-> c, s |-> g * RoundHalfEven(x.s + y.s, g)]

\* res += a[i] for i = lo, lo + step, ... while i <= hi
RECURSIVE NearLoop(_, _, _, _, _)
NearLoop(ks, lo, hi, step, res) ==
    IF lo > hi THEN res
    ELSE NearLoop(ks, lo + step, hi, step, NearAdd(res, [count |-> 1, s |-> ks[lo]]))

\* numpy's pairwise summation of ks[from..to] (add.reduce of a contiguous
\* vector): a plain loop below 8 elements, 8 accumulators up to 128 elements,
\* two halves above
RECURSIVE NearSum(_, _, _)
NearSum(ks, from, to) ==
    LET n == to - from + 1
        zero == [count |-> 0, s |-> 0]
        m == n - (n % 8)
        r(j) == NearLoop(ks, from + j, from + m - 1, 8, zero)
        n2 == (n \div 2) - ((n \div 2) % 8)
    IN  IF n < 8 THEN NearLoop(ks, from, to, 1, zero)
        ELSE IF n <= 128
        THEN NearLoop(ks, from + m, to, 1,
                      NearAdd(NearAdd(NearAdd(r(0), r(1)), NearAdd(r(2), r(3))),
                              NearAdd(NearAdd(r(4), r(5)), NearAdd(r(6), r(7)))))
        ELSE NearAdd(NearSum(ks, from, from + n2 - 1), NearSum(ks, from + n2, to))

\* numpy's mean of a vector of doubles next to 3/2, in ulps: sum / n, rounded
NearMean(ks) == RoundHalfEven(NearSum(ks, 1, Len(ks)).s, Len(ks))

\* numpy's mean of a non-empty vector
Mean(s) ==
    IF AllNear(s) THEN Near(NearMean(Ulps(s))) ELSE Div(Sum(s), Int2Rat(Len(s)))

\* 10**exp for an integer exponent (a float when exp < 0)
RECURSIVE Pow10Int(_)
Pow10Int(k) == IF k = 0 THEN 1 ELSE 10 * Pow10Int(k - 1)

Pow10(exp) == IF exp >= 0 THEN Int2Rat(Pow10Int(exp)) ELSE Rat(1, Pow10Int(-exp))

(***************************************************************************)
(* Values that depend on a standard deviation.                             *)
(*   [kind |-> "aff", off, mul, z, dist, den]                              *)
(* is the real number (off + mul*(mean(dist) - z*std(dist))) / den, where  *)
(* dist is a vector of replicate means and std is numpy's population       *)
(* standard deviation (ddof = 0).  The value is kept in this form and      *)
(* evaluated exactly, as A + B*sqrt(V), when two values are compared.      *)
(***************************************************************************)
\* numpy's var of a vector: mean(abs(x - x.mean())**2)
Variance(dist) ==
    LET m == Mean(dist)
    IN  Mean([k \in 1..Len(dist) |-> Mul(Sub(dist[k], m), Sub(dist[k], m))])

\* the sign of a + b*sqrt(v) for finite rationals a, b and v >= 0
SignSurd(a, b, v) ==
    LET sa == Sgn(a.n)
        sb == IF v.n > 0 THEN Sgn(b.n) ELSE 0
        a2 == Mul(a, a)
        b2v == Mul(Mul(b, b), v)
    IN  IF sb = 0 THEN sa
        ELSE IF sa = 0 \/ sa = sb THEN sb
        ELSE IF Less(b2v, a2) THEN sa
        ELSE IF Less(a2, b2v) THEN sb
        ELSE 0

\* the sign of a + b*sqrt(v) + c*sqrt(w)
SignSurd2(a, b, v, c, w) ==
    IF v = w THEN SignSurd(a, Add(b, c), v) ELSE
    LET sa == Sgn(a.n)
        sb == IF v.n > 0 THEN Sgn(b.n) ELSE 0
        sc == IF w.n > 0 THEN Sgn(c.n) ELSE 0
        b2v == Mul(Mul(b, b), v)
        c2w == Mul(Mul(c, c), w)
        st == IF sb = 0 THEN sc
              ELSE IF sc = 0 \/ sc = sb THEN sb
              ELSE IF Less(c2w, b2v) THEN sb
              ELSE IF Less(b2v, c2w) THEN sc
              ELSE 0
        \* a^2 - (b*sqrt(v) + c*sqrt(w))^2 = k - 2bc*sqrt(vw)
        k == Sub(Mul(a, a), Add(b2v, c2w))
        sk == SignSurd(k, Mul(Int2Rat(-2), Mul(b, c)), Mul(v, w))
    IN  IF st = 0 THEN sa
        ELSE IF sa = 0 \/ sa = st THEN st
        ELSE IF sk > 0 THEN sa
        ELSE IF sk < 0 THEN st
        ELSE 0

AllFinite(s) == \A k \in 1..Len(s) : IsFinite(s[k])

\* int(x) of a finite number: truncation toward zero
IntTrunc(x) == IF x.n >= 0 THEN x.n \div x.d ELSE -((-x.n) \div x.d)

\* the largest s <= r whose square divides m (m > 0)
RECURSIVE SquarePartFrom(_, _)
SquarePartFrom(m, r) == IF m % (r * r) = 0 THEN r ELSE SquarePartFrom(m, r - 1)

\* the integer part of sqrt(m), counting up from r
RECURSIVE ISqrtFrom(_, _)
ISqrtFrom(m, r) == IF (r + 1) * (r + 1) > m THEN r ELSE ISqrtFrom(m, r + 1)

\* a + b*sqrt(v) with the square factors taken out of the root:
\* sqrt(n/d) = s*sqrt(m)/d for n*d = s*s*m; a rational root joins a
Surd(a, b, v) ==
    IF v.n = 0 \/ b.n = 0
    THEN [fin |-> TRUE, a |-> a, b |-> Int2Rat(0), v |-> Int2Rat(0)]
    ELSE LET nd == v.n * v.d
             sq == SquarePartFrom(nd, ISqrtFrom(nd, 1))
             m == nd \div (sq * sq)
             c == Mul(b, Rat(sq, v.d))
         IN  IF m = 1
             THEN [fin |-> TRUE, a |-> Add(a, c), b |-> Int2Rat(0), v |-> Int2Rat(0)]
             ELSE [fin |-> TRUE, a |-> a, b |-> c, v |-> Int2Rat(m)]

\* a value as A + B*sqrt(V) (fin), or as the NaN or infinity it is (~fin)
Eval(x) ==
    IF x.kind = "rat"
    THEN (IF IsFinite(x)
          THEN [fin |-> TRUE, a |-> x, b |-> Int2Rat(0), v |-> Int2Rat(0)]
          ELSE [fin |-> FALSE, a |-> x, b |-> Int2Rat(0), v |-> Int2Rat(0)])
    ELSE IF x.dist = <<>> \/ ~AllFinite(x.dist) \/ IsNaN(x.den)
    THEN [fin |-> FALSE, a |-> NaN, b |-> Int2Rat(0), v |-> Int2Rat(0)]
    ELSE LET v == Variance(x.dist)
             a == Add(x.off, Mul(x.mul, Mean(x.dist)))
             b == Neg(Mul(x.mul, x.z))
             s == SignSurd(a, b, v)
         IN  IF IsInf(x.den)
             THEN [fin |-> TRUE, a |-> Int2Rat(0), b |-> Int2Rat(0), v |-> Int2Rat(0)]
             ELSE IF x.den.n = 0
             THEN [fin |-> FALSE, a |-> Rat(s, 0), b |-> Int2Rat(0), v |-> Int2Rat(0)]
             ELSE Surd(Div(a, x.den), Div(b, x.den), v)

\* numpy's var of a vector of doubles next to 3/2, in units of u^2: the
\* deviations from the rounded mean are exact, as are their squares
NearVariance(ks) ==
    LET m == NearMean(ks)
        RECURSIVE SumSq(_)
        SumSq(i) == IF i = 0 THEN 0 ELSE (ks[i] - m) * (ks[i] - m) + SumSq(i - 1)
    IN  Rat(SumSq(Len(ks)), Len(ks))

\* the integer nearest to a + b*sqrt(v), ties to the even one
RoundSurd(a, b, v) ==
    LET c == IntTrunc(a)
        q == IntTrunc(Mul(Mul(b, b), v)) + 1
        w == 1 + CHOOSE r \in 1..q : r * r >= q /\ (r - 1) * (r - 1) < q
        Above(j) == SignSurd(Sub(a, Rat(2 * j - 1, 2)), b, v)
        Below(j) == SignSurd(Sub(a, Rat(2 * j + 1, 2)), b, v)
    IN  CHOOSE j \in (c - w)..(c + w) :
            /\ Above(j) > 0 \/ (Above(j) = 0 /\ j % 2 = 0)
            /\ Below(j) < 0 \/ (Below(j) = 0 /\ j % 2 = 0)

\* a VaR of doubles next to 3/2 (-z*std + mean with off = 0, mul = 1, den = 1):
\* the sum rounds to a double next to 3/2
IsNearVaR(x) ==
    /\ x.kind = "aff" /\ AllNear(x.dist)
    /\ x.off = Int2Rat(0) /\ x.mul = Int2Rat(1) /\ x.den = Int2Rat(1)

\* the double a value is, where the model carries it to the last place
Rounded(x) ==
    IF IsNearVaR(x)
    THEN Near(RoundSurd(Int2Rat(NearMean(Ulps(x.dist))), Neg(x.z),
                        NearVariance(Ulps(x.dist))))
    ELSE x

\* a value among the doubles next to 3/2: a value carried to the last place,
\* or a value of the rational scale equal to 3/2, the double 3/2 itself;
\* e is Eval(x)
AmongNear(x, e) ==
    IF IsNear(Rounded(x)) THEN Rounded(x)
    ELSE IF e.fin /\ e.b.n = 0 /\ e.a = Rat(3, 2) THEN Near(0)
    ELSE x

\* x < y for two values, as Python compares floats
XLess(x, y) ==
    LET ex == Eval(x)
        ey == Eval(y)
        rx == AmongNear(x, ex)
        ry == AmongNear(y, ey)
    IN  IF IsNear(rx) /\ IsNear(ry)
        THEN rx.ulps < ry.ulps
        ELSE IF ex.fin /\ ey.fin
        THEN SignSurd2(Sub(ex.a, ey.a), ex.b, ex.v, Neg(ey.b), ey.v) < 0
        ELSE IF ~ex.fin /\ ~ey.fin THEN Less(ex.a, ey.a)
        ELSE IF ~ex.fin THEN (IsInf(ex.a) /\ ex.a.n < 0)
        ELSE (IsInf(ey.a) /\ ey.a.n > 0)

XIsNaN(x) == LET e == Eval(x) IN ~e.fin /\ IsNaN(e.a)

XLeq(x, y) == ~XIsNaN(x) /\ ~XIsNaN(y) /\ ~XLess(y, x)

\* x - y, x * y and x / y where at most one operand is an "aff" value
XSub(x, y) ==
    IF x.kind = "rat" /\ y.kind = "rat" THEN Sub(x, y)
    ELSE IF y.kind = "rat"
    THEN [x EXCEPT !.off = Sub(x.off, Mul(y, x.den))]
    ELSE [y EXCEPT !.off = Sub(Mul(x, y.den), y.off), !.mul = Neg(y.mul)]

XMul(x, y) ==
    IF x.kind = "rat" /\ y.kind = "rat" THEN Mul(x, y)
    ELSE IF y.kind = "rat"
    THEN [x EXCEPT !.off = Mul(x.off, y), !.mul = Mul(x.mul, y)]
    ELSE [y EXCEPT !.off = Mul(y.off, x), !.mul = Mul(y.mul, x)]

XDiv(x, y) ==
    IF x.kind = "rat" /\ y.kind = "rat" THEN Div(x, y)
    ELSE [x EXCEPT !.den = Mul(x.den, y)]

(***************************************************************************)
(* The source table (the DataFrame df) and the RiskMetrics instance.       *)
(* A table is a record of three aligned columns; a Series is a sequence of *)
(* numbers, a missing sample being NaN.                                    *)
(***************************************************************************)
None == [kind |-> "None"]

MaxLen == 2

MaxPoolSize == 2

MaxNotional == 2

\* the values a generated column cycles through, from any starting point
LiquidationValues == <<Int2Rat(1), Int2Rat(0), NaN>>

MarginValues == {Int2Rat(0), Int2Rat(2)}

PnlValues == <<Int2Rat(-1), NaN, Int2Rat(0)>>

\* the table of the specification's worked example
ExampleTable ==
    [liquidation |-> <<Int2Rat(90), Int2Rat(85), Int2Rat(80), Int2Rat(75), Int2Rat(70)>>,
     margin |-> <<Int2Rat(100), Int2Rat(100), Int2Rat(100), Int2Rat(100), Int2Rat(100)>>,
     pnl |-> <<Int2Rat(0), Int2Rat(-5), Int2Rat(-10), Int2Rat(-15), Int2Rat(-20)>>]

\* a column of len samples: values[start], values[start+1], ... cyclically
Column(values, start, len) ==
    [t \in 1..len |-> values[((start + t - 2) % Len(values)) + 1]]

\* the margin column m0, m0+1, m0+2, ... of a generated table
MarginColumn(m0, len) == [t \in 1..len |-> Add(m0, Int2Rat(t - 1))]

Tables ==
    {ExampleTable} \cup
    {[liquidation |-> Column(LiquidationValues, sl, len),
      margin |-> MarginColumn(m0, len),
      pnl |-> Column(PnlValues, sp, len)] :
        len \in 1..MaxLen, sl \in 1..Len(LiquidationValues),
        m0 \in MarginValues, sp \in 1..Len(PnlValues)}

PoolSizes == {None} \cup {[kind |-> "int", i |-> k] : k \in 1..MaxPoolSize}

Notionals == {Int2Rat(k) : k \in 1..MaxNotional}

\* s[:k] for k >= 0
SeqHead(s, k) == SubSeq(s, 1, IF k < Len(s) THEN k ELSE Len(s))

\* df.iloc[:k]
ILocHead(table, k) ==
    [liquidation |-> SeqHead(table.liquidation, k),
     margin |-> SeqHead(table.margin, k),
     pnl |-> SeqHead(table.pnl, k)]

\* (Series - scalar), (scalar - Series), (Series + scalar), (Series / scalar)
ScalarMinusSeries(c, s) == [t \in 1..Len(s) |-> Sub(c, s[t])]

SeriesPlusScalar(s, c) == [t \in 1..Len(s) |-> Add(s[t], c)]

SeriesDivScalar(s, c) == [t \in 1..Len(s) |-> Div(s[t], c)]

\* Liquidation with each row divided by its own margin instead of margin.iloc[0]
LiquidationRowMargin(margin, liq) ==
    [t \in 1..Len(liq) |-> Div(Sub(margin[t], liq[t]), margin[t])]

\* RiskMetrics.liquidation(): (margin.iloc[0] - liquidation_series) / margin.iloc[0]
Liquidation(margin, liq) ==
    SeriesDivScalar(ScalarMinusSeries(margin[1], liq), margin[1])

\* RiskMetrics.insolvency(): (pnl_series + margin.iloc[0]) / margin.iloc[0]
Insolvency(margin, pnl) ==
    SeriesDivScalar(SeriesPlusScalar(pnl, margin[1]), margin[1])

\* Series.dropna(): the samples that are not NaN, in order
RECURSIVE DropNa(_)
DropNa(s) ==
    IF s = <<>> THEN <<>>
    ELSE IF IsNaN(Head(s)) THEN DropNa(Tail(s))
    ELSE <<Head(s)>> \o DropNa(Tail(s))

VARIABLES
    df_arg,              \* the table the constructor was given
    pool_size,           \* self.pool_size
    df,                  \* self.df
    notional,            \* self.notional
    liquidation_series,  \* self.liquidation_series
    margin_series,       \* self.margin_series
    pnl_series,          \* self.pnl_series
    liquidation,         \* self.liquidation (the cached liquidation ratio series)
    insolvency,          \* self.insolvency (the cached insolvency ratio series)
    ret,                 \* the outcome of the call just made, NoCall once the caller took it
    prev                 \* the outcome the caller still held when that call was made

instance == <<df_arg, pool_size, df, notional, liquidation_series, margin_series,
              pnl_series, liquidation, insolvency>>

vars == <<df_arg, pool_size, df, notional, liquidation_series, margin_series,
          pnl_series, liquidation, insolvency, ret, prev>>

NoCall == [op |-> "none"]

\* RiskMetrics.__init__(df, notional, "liquidation", "margin", "pnl", pool_size)
Construct(table, n, p) ==
    /\ df_arg = table
    /\ pool_size = (IF p = None THEN Len(table.liquidation) ELSE p.i)
    /\ df = (IF p = None THEN table ELSE ILocHead(table, p.i))
    /\ notional = n
    /\ liquidation_series = table.liquidation
    /\ margin_series = table.margin
    /\ pnl_series = table.pnl
    /\ liquidation = Liquidation(table.margin, table.liquidation)
    /\ insolvency = Insolvency(table.margin, table.pnl)

Init ==
    /\ \E table \in Tables, n \in Notionals, p \in PoolSizes : Construct(table, n, p)
    /\ ret = NoCall
    /\ prev = NoCall

(***************************************************************************)
(* get_random: exp = random.randint(-5, -2),                               *)
(* significand = 0.9 * random.random() + 0.1, result significand * 10**exp.*)
(* random.random() is a float in [0, 1); the model draws it from the grid  *)
(* k / RandomGrid, k in 0..RandomGrid-1.                                   *)
(***************************************************************************)
RandomGrid == 10

ExpLow == -5

ExpHigh == -2

RandIntRange == ExpLow..ExpHigh

RandomFloats == {Rat(k, RandomGrid) : k \in 0..(RandomGrid - 1)}

\* get_random without the + 0.1 that keeps the significand off zero
get_random_no_floor(exp, r) == Mul(Mul(Rat(9, 10), r), Pow10(exp))

get_random(exp, r) ==
    LET significand == Add(Mul(Rat(9, 10), r), Rat(1, 10))
    IN  Mul(significand, Pow10(exp))

GetRandomCall(exp, r) ==
    /\ ret' = [op |-> "get_random", status |-> "ok", exp |-> exp, r |-> r,
               value |-> get_random(exp, r)]
    /\ prev' = ret
    /\ UNCHANGED instance

(***************************************************************************)
(* The libraries generate_replicates calls.  Their code is not part of the *)
(* repository; they are modelled from sections 4.3 and 4.4 of the          *)
(* specification.                                                          *)
(***************************************************************************)
Seed == 42

\* the k-th raw draw (k = 0, 1, ...) of np.random.RandomState(seed): a fixed
\* function of the seed and the position in the stream
RawDraw(seed, k) == (((seed + 7 * k) * (seed + 7 * k)) + 3 * k) % 1013

\* rs.randint(high): the next draw of the stream, in [0, high)
RandInt(high, seed, k) == RawDraw(seed, k) % high

\* the number of blocks of one replicate: ceil(len / block_size)
NumBlocks(len, block_size) ==
    LET q == len \div block_size
    IN  IF q * block_size < len THEN q + 1 ELSE q

\* the indices of one replicate: num_blocks random starts, each followed by
\* block_size consecutive indices modulo len, cut to len indices
UpdateIndices(len, block_size, seed, k) ==
    LET nb == NumBlocks(len, block_size)
        starts == [b \in 1..nb |-> RandInt(len, seed, k + b - 1)]
        flat == [j \in 1..(nb * block_size) |->
                    (starts[((j - 1) \div block_size) + 1] + ((j - 1) % block_size)) % len]
    IN  SeqHead(flat, len)

\* CircularBlockBootstrap(block_size, x, random_state).bootstrap(reps), the
\* stream being at position k: the list of replicates
Bootstrap(x, block_size, reps, seed, k) ==
    [j \in 1..reps |->
        LET idx == UpdateIndices(Len(x), block_size, seed,
                                 k + (j - 1) * NumBlocks(Len(x), block_size))
        IN  [i \in 1..Len(idx) |-> x[idx[i] + 1]]]

\* the draws bootstrap(reps) consumes
DrawsUsed(len, block_size, reps) == reps * NumBlocks(len, block_size)

\* optimal_block_length(x)["circular"].values[0]: an estimate that is not
\* an integer in general and not positive for every input, or NaN, or
\* infinite; the model draws it from this set
MaxEstimate == 1

BlockLengthEstimates ==
    {NaN, PosInf, Int2Rat(-1), Rat(-1, 2)} \cup {Rat(k, 2) : k \in 0..(2 * MaxEstimate)}

\* the exception a bootstrap with a block size below 1 ends in when it builds
\* its first replicate: the number of blocks is num_items // block_size, and a
\* negative number of blocks is not a size random_state.randint accepts.
\* bootstrap(0) builds no replicate and raises nothing.
BlockFailure(block_size) ==
    IF block_size = 0 THEN "ZeroDivisionError" ELSE "ValueError"

(***************************************************************************)
(* generate_replicates                                                     *)
(***************************************************************************)
DefaultNReplicates == 100

\* StreamStart when one RandomState is shared by the calls: the stream goes on
\* from where the call whose result is held left it
StreamStartShared ==
    IF ret.op = "generate_replicates" THEN ret.stream_end ELSE 0

\* rs = np.random.RandomState(42) is created by every call: the stream of a
\* call starts at position 0
StreamStart == 0

\* the block size handed to CircularBlockBootstrap: int(time_delta) + 1
BlockSize(time_delta) == IntTrunc(time_delta) + 1

\* [l + self.get_random() for l in series.values], draws[k] = <<exp, r>>
Jitter(series, draws) ==
    [k \in 1..Len(series) |-> Add(series[k], get_random(draws[k][1], draws[k][2]))]

\* ReplicateList that loses the first replicate of the generator
ReplicateListSkipFirst(x, block_size, reps, seed, k) ==
    LET all == Bootstrap(x, block_size, reps, seed, k)
    IN  SubSeq(all, 2, Len(all))

\* ReplicateList that leaves the block size at 1 whatever was computed
ReplicateListBlockOne(x, block_size, reps, seed, k) == Bootstrap(x, 1, reps, seed, k)

\* [data[1]["x"].flatten() for data in bs.bootstrap(N_replicates)]
ReplicateList(x, block_size, reps, seed, k) == Bootstrap(x, block_size, reps, seed, k)

\* CachedAfter when the jitter is written back into the cached series
CachedAfterJittered(cleaned, jittered) == jittered

\* the cached series after lines 73-77: dropna(inplace=True) has cleaned it;
\* the jitter builds a new array and leaves the Series alone
CachedAfter(cleaned, jittered) == cleaned

\* the draws of one call: draw a for the odd samples, b for the even ones
DrawSeq(a, b, len) == [k \in 1..len |-> IF k % 2 = 1 THEN a ELSE b]

\* int(x) of a float that is not finite: int(nan) raises ValueError,
\* int(inf) raises OverflowError
IntFailure(x) == IF IsNaN(x) THEN "ValueError" ELSE "OverflowError"

\* What generate_replicates(N_replicates) does on the cached series liq0, ins0,
\* given the jitter draws ja, jb and the two block-length estimates: the cached
\* series after the call and the result (or the exception raised).  handed is
\* the sequence of block sizes given to CircularBlockBootstrap, in the order of
\* lines 83 and 84: int(time_delta_l)+1 is handed at line 83 before
\* int(time_delta_i) is evaluated at line 84.  The liquidation bootstrap of
\* line 86 runs before the insolvency bootstrap of line 87: l_rep is what line
\* 86 has built when line 87 fails.  A block size below 1 makes a bootstrap
\* fail only when a replicate is asked for: with N_replicates = 0 the loops of
\* lines 86 and 87 build nothing and the call returns two empty lists.
generate_replicates(liq0, ins0, N_replicates, ja, jb, est_l, est_i) ==
    LET cl == DropNa(liq0)
        ci == DropNa(ins0)
        liq == Jitter(cl, DrawSeq(ja, jb, Len(cl)))
        ins == Jitter(ci, DrawSeq(jb, ja, Len(ci)))
        base == [op |-> "generate_replicates", N |-> N_replicates,
                 ja |-> ja, jb |-> jb, est_l |-> est_l, est_i |-> est_i,
                 liquidation |-> CachedAfter(cl, liq),
                 insolvency |-> CachedAfter(ci, ins),
                 liq |-> liq, ins |-> ins]
        none == [l_rep |-> <<>>, i_rep |-> <<>>, stream_end |-> StreamStart]
    IN  IF liq = <<>> \/ ins = <<>>
        THEN base @@ none @@ [status |-> "ValueError", block_l |-> 0, block_i |-> 0,
                              handed |-> <<>>]
        ELSE IF ~IsFinite(est_l)
        THEN base @@ none @@ [status |-> IntFailure(est_l), block_l |-> 0,
                              block_i |-> 0, handed |-> <<>>]
        ELSE LET bl == BlockSize(est_l)
             IN  IF ~IsFinite(est_i)
                 THEN base @@ none @@ [status |-> IntFailure(est_i), block_l |-> bl,
                                       block_i |-> 0, handed |-> <<bl>>]
                 ELSE LET bi == BlockSize(est_i)
                          sizes == [block_l |-> bl, block_i |-> bi, handed |-> <<bl, bi>>]
                      IN  IF bl < 1 /\ N_replicates >= 1
                          THEN base @@ none @@ sizes @@ [status |-> BlockFailure(bl)]
                          ELSE LET k_i == IF bl < 1 THEN StreamStart
                                          ELSE StreamStart + DrawsUsed(Len(liq), bl, N_replicates)
                                   l_rep == IF bl < 1 THEN <<>>
                                            ELSE ReplicateList(liq, bl, N_replicates, Seed, StreamStart)
                               IN  IF bi < 1 /\ N_replicates >= 1
                                   THEN base @@ sizes @@
                                        [status |-> BlockFailure(bi), l_rep |-> l_rep,
                                         i_rep |-> <<>>, stream_end |-> k_i]
                                   ELSE base @@ sizes @@
                                        [status |-> "ok", l_rep |-> l_rep,
                                         i_rep |-> IF bi < 1 THEN <<>>
                                                   ELSE ReplicateList(ins, bi, N_replicates, Seed, k_i),
                                         stream_end |-> IF bi < 1 THEN k_i
                                                        ELSE k_i + DrawsUsed(Len(ins), bi, N_replicates)]

GenerateReplicatesCall(N_replicates, ja, jb, est_l, est_i) ==
    \E g \in {generate_replicates(liquidation, insolvency, N_replicates,
                                  ja, jb, est_l, est_i)} :
        /\ ret' = g
        /\ prev' = ret
        /\ liquidation' = g.liquidation
        /\ insolvency' = g.insolvency
        /\ UNCHANGED <<df_arg, pool_size, df, notional, liquidation_series,
                       margin_series, pnl_series>>

(***************************************************************************)
(* lvar_and_ivar, leverages, recommended_leverage.  An optional argument   *)
(* is None or Some(value).                                                 *)
(***************************************************************************)
Some(x) == [kind |-> "some", v |-> x]

\* the one element of a singleton set: binds a value that is computed once
Only(S) == CHOOSE x \in S : TRUE

\* self.z_scores = {95: 1.96, 99: 2.58}
z_scores == (95 :> Rat(196, 100)) @@ (99 :> Rat(258, 100))

DefaultAlpha == 95

\* ZScoreLookup as self.z_scores.get(alpha, 1.96): a default instead of a KeyError
ZScoreLookupDefault(alpha) ==
    IF alpha \in DOMAIN z_scores
    THEN [found |-> TRUE, z |-> z_scores[alpha]]
    ELSE [found |-> TRUE, z |-> z_scores[DefaultAlpha]]

\* z_score = self.z_scores[alpha]: a KeyError when alpha is not a key
ZScoreLookup(alpha) ==
    IF alpha \in DOMAIN z_scores
    THEN [found |-> TRUE, z |-> z_scores[alpha]]
    ELSE [found |-> FALSE, z |-> NaN]

\* np.array([l.mean() for l in reps])
ReplicateMeans(reps) == [k \in 1..Len(reps) |-> Mean(reps[k])]

\* GaussianVaR with the sign of the deviation term flipped: z_score*std + mean
GaussianVaRUpper(z_score, dist) ==
    [kind |-> "aff", off |-> Int2Rat(0), mul |-> Int2Rat(1), z |-> Neg(z_score),
     dist |-> dist, den |-> Int2Rat(1)]

\* -z_score*dist.std() + dist.mean()
GaussianVaR(z_score, dist) ==
    [kind |-> "aff", off |-> Int2Rat(0), mul |-> Int2Rat(1), z |-> z_score,
     dist |-> dist, den |-> Int2Rat(1)]

\* the VaR pair of two replicate lists: the second half of lvar_and_ivar
VaRPair(z_score, l_rep, i_rep) ==
    LET l_dist == ReplicateMeans(l_rep)
        i_dist == ReplicateMeans(i_rep)
    IN  [l_var |-> GaussianVaR(z_score, l_dist), i_var |-> GaussianVaR(z_score, i_dist)]

\* What lvar_and_ivar(alpha, l_rep, i_rep) does; ja, jb, est_l, est_i are the
\* random draws and estimates of the generate_replicates() call it may make.
lvar_and_ivar(liq0, ins0, alpha, l_rep, i_rep, ja, jb, est_l, est_i) ==
    LET base == [op |-> "lvar_and_ivar", alpha |-> alpha, l_rep |-> l_rep,
                 i_rep |-> i_rep]
    IN  IF ~ZScoreLookup(alpha).found
        THEN base @@ [status |-> "KeyError", generated |-> FALSE,
                      liquidation |-> liq0, insolvency |-> ins0]
        ELSE IF l_rep = None \/ i_rep = None
        THEN Only({IF g.status # "ok"
                   THEN base @@ [status |-> g.status, generated |-> TRUE,
                                 liquidation |-> g.liquidation,
                                 insolvency |-> g.insolvency]
                   ELSE base @@ VaRPair(ZScoreLookup(alpha).z, g.l_rep, g.i_rep) @@
                        [status |-> "ok", generated |-> TRUE,
                         liquidation |-> g.liquidation, insolvency |-> g.insolvency] :
                   g \in {generate_replicates(liq0, ins0, DefaultNReplicates,
                                              ja, jb, est_l, est_i)}})
        ELSE base @@ VaRPair(ZScoreLookup(alpha).z, l_rep.v, i_rep.v) @@
             [status |-> "ok", generated |-> FALSE,
              liquidation |-> liq0, insolvency |-> ins0]

LvarAndIvarCall(alpha, l_rep, i_rep, ja, jb, est_l, est_i) ==
    \E v \in {lvar_and_ivar(liquidation, insolvency, alpha, l_rep, i_rep,
                            ja, jb, est_l, est_i)} :
        /\ ret' = v
        /\ prev' = ret
        /\ liquidation' = v.liquidation
        /\ insolvency' = v.insolvency
        /\ UNCHANGED <<df_arg, pool_size, df, notional, liquidation_series,
                       margin_series, pnl_series>>

\* LeveragePair with the same sign (1 - VaR) in both bounds
LeveragePairSameSign(n, liq_series, pnl, l_var, i_var) ==
    [l_lev |-> XDiv(XMul(n, XSub(Int2Rat(1), l_var)), liq_series[1]),
     i_lev |-> XDiv(XMul(n, XSub(Int2Rat(1), i_var)), pnl[Len(pnl)])]

\* the two leverage bounds of a VaR pair: the second half of leverages
LeveragePair(n, liq_series, pnl, l_var, i_var) ==
    [l_lev |-> XDiv(XMul(n, XSub(Int2Rat(1), l_var)), liq_series[1]),
     i_lev |-> XDiv(XMul(n, XSub(i_var, Int2Rat(1))), pnl[Len(pnl)])]

\* leverages that recomputes only when both values are missing ("and" for
\* "or"): with one value missing the arithmetic on None raises TypeError
leverages_both_absent(liq0, ins0, n, liq_series, pnl, l_var, i_var, ja, jb, est_l, est_i) ==
    LET base == [op |-> "leverages", l_var |-> l_var, i_var |-> i_var]
    IN  IF l_var = None /\ i_var = None
        THEN Only({IF v.status # "ok"
                   THEN base @@ [status |-> v.status, computed |-> TRUE,
                                 liquidation |-> v.liquidation,
                                 insolvency |-> v.insolvency]
                   ELSE base @@ LeveragePair(n, liq_series, pnl, v.l_var, v.i_var) @@
                        [status |-> "ok", computed |-> TRUE,
                         liquidation |-> v.liquidation, insolvency |-> v.insolvency] :
                   v \in {lvar_and_ivar(liq0, ins0, DefaultAlpha, None, None,
                                        ja, jb, est_l, est_i)}})
        ELSE IF l_var = None \/ i_var = None
        THEN base @@ [status |-> "TypeError", computed |-> FALSE,
                      liquidation |-> liq0, insolvency |-> ins0]
        ELSE base @@ LeveragePair(n, liq_series, pnl, l_var.v, i_var.v) @@
             [status |-> "ok", computed |-> FALSE,
              liquidation |-> liq0, insolvency |-> ins0]

\* What leverages(l_var, i_var) does on an instance with the given notional and
\* raw series.
leverages(liq0, ins0, n, liq_series, pnl, l_var, i_var, ja, jb, est_l, est_i) ==
    LET base == [op |-> "leverages", l_var |-> l_var, i_var |-> i_var]
    IN  IF l_var = None \/ i_var = None
        THEN Only({IF v.status # "ok"
                   THEN base @@ [status |-> v.status, computed |-> TRUE,
                                 liquidation |-> v.liquidation,
                                 insolvency |-> v.insolvency]
                   ELSE base @@ LeveragePair(n, liq_series, pnl, v.l_var, v.i_var) @@
                        [status |-> "ok", computed |-> TRUE,
                         liquidation |-> v.liquidation, insolvency |-> v.insolvency] :
                   v \in {lvar_and_ivar(liq0, ins0, DefaultAlpha, None, None,
                                        ja, jb, est_l, est_i)}})
        ELSE base @@ LeveragePair(n, liq_series, pnl, l_var.v, i_var.v) @@
             [status |-> "ok", computed |-> FALSE,
              liquidation |-> liq0, insolvency |-> ins0]

LeveragesCall(l_var, i_var, ja, jb, est_l, est_i) ==
    \E v \in {leverages(liquidation, insolvency, notional, liquidation_series,
                        pnl_series, l_var, i_var, ja, jb, est_l, est_i)} :
        /\ ret' = v
        /\ prev' = ret
        /\ liquidation' = v.liquidation
        /\ insolvency' = v.insolvency
        /\ UNCHANGED <<df_arg, pool_size, df, notional, liquidation_series,
                       margin_series, pnl_series>>

\* the parameters of leverages(self, l_var=None, i_var=None)
LeveragesParameters == {"l_var", "i_var"}

\* the keywords recommended_leverage passes: self.leverages(time_horizon=...)
RecommendedLeverageKeywords == {"time_horizon"}

\* What recommended_leverage(time_horizon) does: Python raises TypeError when a
\* call passes a keyword the function does not declare.
recommended_leverage(liq0, ins0, n, liq_series, pnl, time_horizon, ja, jb, est_l, est_i) ==
    LET base == [op |-> "recommended_leverage", time_horizon |-> time_horizon,
                 est_l |-> est_l, est_i |-> est_i]
    IN  IF ~(RecommendedLeverageKeywords \subseteq LeveragesParameters)
        THEN base @@ [status |-> "TypeError", called |-> FALSE,
                      liquidation |-> liq0, insolvency |-> ins0]
        ELSE Only({IF v.status # "ok"
                   THEN base @@ [status |-> v.status, called |-> TRUE,
                                 liquidation |-> v.liquidation,
                                 insolvency |-> v.insolvency]
                   ELSE base @@
                        [status |-> "ok", called |-> TRUE,
                         l_lev |-> v.l_lev, i_lev |-> v.i_lev,
                         liquidation |-> v.liquidation, insolvency |-> v.insolvency,
                         value |-> IF XLess(v.l_lev, v.i_lev) THEN v.l_lev ELSE v.i_lev] :
                   v \in {leverages(liq0, ins0, n, liq_series, pnl, None, None,
                                    ja, jb, est_l, est_i)}})

RecommendedLeverageCall(time_horizon, ja, jb, est_l, est_i) ==
    \E v \in {recommended_leverage(liquidation, insolvency, notional,
                                   liquidation_series, pnl_series, time_horizon,
                                   ja, jb, est_l, est_i)} :
        /\ ret' = v
        /\ prev' = ret
        /\ liquidation' = v.liquidation
        /\ insolvency' = v.insolvency
        /\ UNCHANGED <<df_arg, pool_size, df, notional, liquidation_series,
                       margin_series, pnl_series>>

\* the caller takes the result and drops what it held
Return ==
    /\ ret.op # "none"
    /\ ret' = NoCall
    /\ prev' = NoCall
    /\ UNCHANGED instance

(***************************************************************************)
(* The inputs the model tries.                                             *)
(***************************************************************************)
MaxReplicates == 2

MaxValue == 1

\* jitter draws <<exp, r>>: the smallest and the largest offset of the grid
LowDraw == <<ExpLow, Rat(0, 1)>>

HighDraw == <<ExpHigh, Rat(RandomGrid - 1, RandomGrid)>>

JitterDraws == {LowDraw, HighDraw}

\* the draws and estimates <<ja, jb, est_l, est_i>> of a generate_replicates
\* call made inside lvar_and_ivar or leverages
NestedInputs == {<<LowDraw, HighDraw, Rat(1, 2), Int2Rat(1)>>,
                 <<HighDraw, LowDraw, Int2Rat(0), NaN>>}

Alphas == {90, 95, 99}

\* replicates a caller supplies: <<a>> and <<a, a+1>>
Replicates ==
    {<<Int2Rat(a)>> : a \in 0..MaxValue} \cup
    {<<Int2Rat(a), Int2Rat(a + 1)>> : a \in 0..MaxValue}

\* replicate lists a caller supplies: a, b, a, ... of 1..MaxReplicates replicates
ReplicateLists ==
    {[j \in 1..k |-> IF j % 2 = 1 THEN a ELSE b] :
        k \in 1..MaxReplicates, a \in Replicates, b \in Replicates}

OneReplicateList == <<<<Int2Rat(0), Int2Rat(1)>>, <<Int2Rat(1)>>>>

MaxUlps == 8

MaxNearReplicates == 3

\* replicate lists whose values differ in the last places only: replicates
\* <<3/2 + a*u>>, ..., <<3/2 + a*u>>, <<3/2 + b*u>> of one double each
NearUlps == {0, 1, MaxUlps}

NearReplicateLists ==
    {[j \in 1..k |-> <<Near(IF j = k THEN b ELSE a)>>] :
        k \in 1..MaxNearReplicates, a \in NearUlps, b \in NearUlps}

\* the replicate lists of both scales
SuppliedLists == ReplicateLists \cup NearReplicateLists

\* VaR values a caller supplies
VarValues == {Rat(1, 20), Rat(9, 10), Int2Rat(1), Int2Rat(2)}

\* argument pairs with at least one None
NonePairs(x) == {<<None, None>>, <<None, Some(x)>>, <<Some(x), None>>}

\* instances for the specifications that vary the arguments of the calls:
\* full-length generated tables with a non-zero first margin and a first pnl of 0
SmallTables ==
    {t \in Tables : /\ Len(t.margin) = MaxLen
                    /\ t.margin[1] = Int2Rat(2)
                    /\ t.pnl[1] = Int2Rat(0)}

InitSmall ==
    /\ \E table \in SmallTables : Construct(table, Int2Rat(1), None)
    /\ ret = NoCall
    /\ prev = NoCall

GetRandomStep ==
    /\ ret.op = "none"
    /\ \E exp \in RandIntRange, r \in RandomFloats : GetRandomCall(exp, r)

GenerateReplicatesStep ==
    /\ ret.op = "none"
    /\ \E n \in 0..MaxReplicates, ja \in JitterDraws, jb \in JitterDraws,
          est_l \in BlockLengthEstimates, est_i \in BlockLengthEstimates :
           GenerateReplicatesCall(n, ja, jb, est_l, est_i)

\* a second generate_replicates call, made while the caller holds the result
\* of a first one.  The block-length estimate is a function of the jittered
\* series: the same draws give the estimates of the first call again.
GenerateReplicatesAgainStep ==
    /\ ret.op = "generate_replicates"
    /\ prev.op = "none"
    /\ \E n \in 1..MaxReplicates, ja \in JitterDraws, jb \in JitterDraws,
          est \in BlockLengthEstimates :
           LET same == (ja = ret.ja /\ jb = ret.jb)
           IN  GenerateReplicatesCall(n, ja, jb,
                                      IF same THEN ret.est_l ELSE est,
                                      IF same THEN ret.est_i ELSE est)

\* the first calls after which a later call of another method is tried: one
\* replicate, the same draw for every sample
AfterFirstCall ==
    /\ ret.op = "generate_replicates"
    /\ prev.op = "none"
    /\ ret.N = 1
    /\ ret.ja = ret.jb

\* argument pairs: one or both None, or both supplied
AllPairs(x) == NonePairs(x) \cup {<<Some(x), Some(x)>>}

\* lvar_and_ivar called while the caller holds the result of generate_replicates
LvarAndIvarAfterStep ==
    /\ AfterFirstCall
    /\ \E alpha \in Alphas, a \in AllPairs(OneReplicateList), d \in NestedInputs :
           LvarAndIvarCall(alpha, a[1], a[2], d[1], d[2], d[3], d[4])

\* leverages called while the caller holds the result of generate_replicates
LeveragesAfterStep ==
    /\ AfterFirstCall
    /\ \E a \in AllPairs(Rat(9, 10)), d \in NestedInputs :
           LeveragesCall(a[1], a[2], d[1], d[2], d[3], d[4])

\* lvar_and_ivar with both replicate lists supplied
LvarAndIvarSuppliedStep(lists) ==
    /\ ret.op = "none"
    /\ \E alpha \in Alphas, l_rep \in lists, i_rep \in lists :
           LvarAndIvarCall(alpha, Some(l_rep), Some(i_rep),
                           LowDraw, LowDraw, Int2Rat(0), Int2Rat(0))

\* lvar_and_ivar with a replicate list missing
LvarAndIvarDefaultStep ==
    /\ ret.op = "none"
    /\ \E alpha \in Alphas, a \in NonePairs(OneReplicateList), d \in NestedInputs :
           LvarAndIvarCall(alpha, a[1], a[2], d[1], d[2], d[3], d[4])

LeveragesSuppliedStep ==
    /\ ret.op = "none"
    /\ \E l_var \in VarValues, i_var \in VarValues :
           LeveragesCall(Some(l_var), Some(i_var),
                         LowDraw, LowDraw, Int2Rat(0), Int2Rat(0))

LeveragesDefaultStep ==
    /\ ret.op = "none"
    /\ \E a \in NonePairs(Rat(9, 10)), d \in NestedInputs :
           LeveragesCall(a[1], a[2], d[1], d[2], d[3], d[4])

RecommendedLeverageStep ==
    /\ ret.op = "none"
    /\ \E time_horizon \in {0, 1}, d \in NestedInputs :
           RecommendedLeverageCall(time_horizon, d[1], d[2], d[3], d[4])

\* The engine: any instance, one call at a time.
Next ==
    \/ GetRandomStep
    \/ GenerateReplicatesStep
    \/ LvarAndIvarSuppliedStep({OneReplicateList})
    \/ LvarAndIvarDefaultStep
    \/ LeveragesSuppliedStep
    \/ LeveragesDefaultStep
    \/ RecommendedLeverageStep
    \/ Return

Spec == Init /\ [][Next]_vars

\* lvar_and_ivar on every pair of supplied replicate lists
NextVaR ==
    \/ LvarAndIvarSuppliedStep(SuppliedLists)
    \/ Return

SpecVaR == InitSmall /\ [][NextVaR]_vars

\* generate_replicates called twice in a row
NextRepeat ==
    \/ GenerateReplicatesStep
    \/ GenerateReplicatesAgainStep
    \/ Return

SpecRepeat == InitSmall /\ [][NextRepeat]_vars

\* generate_replicates first, then any method
NextSequence ==
    \/ GenerateReplicatesStep
    \/ GenerateReplicatesAgainStep
    \/ LvarAndIvarAfterStep
    \/ LeveragesAfterStep
    \/ Return

SpecSequence == InitSmall /\ [][NextSequence]_vars

(***************************************************************************)
(* C1.  For every instance with finite, non-degenerate inputs,             *)
(* recommended_leverage returns min(LevL, LevI) of the leverages of that   *)
(* instance, and returns rather than fails.                                *)
(***************************************************************************)
NonDegenerate ==
    /\ AllFinite(margin_series) /\ margin_series[1].n # 0
    /\ AllFinite(liquidation_series) /\ liquidation_series[1].n # 0
    /\ AllFinite(pnl_series) /\ pnl_series[Len(pnl_series)].n # 0

C1_RecommendedLeverageIsMin ==
    (/\ ret.op = "recommended_leverage"
     /\ NonDegenerate
     /\ IsFinite(ret.est_l) /\ IsFinite(ret.est_i))
    => /\ ret.status = "ok"
       /\ ret.value \in {ret.l_lev, ret.i_lev}
       /\ ~XLess(ret.l_lev, ret.value)
       /\ ~XLess(ret.i_lev, ret.value)

(***************************************************************************)
(* C2.  With both VaR values supplied, leverages returns                   *)
(* LevL = notional*(1 - LVaR)/liquidation_series[first] and                *)
(* LevI = notional*(IVaR - 1)/pnl_series[last], on the raw series the      *)
(* instance holds.                                                         *)
(***************************************************************************)
C2_LeveragesFormula ==
    (ret.op = "leverages" /\ ret.l_var # None /\ ret.i_var # None)
    => /\ ret.status = "ok"
       /\ ret.l_lev = Div(Mul(notional, Sub(Int2Rat(1), ret.l_var.v)),
                          liquidation_series[1])
       /\ ret.i_lev = Div(Mul(notional, Sub(ret.i_var.v, Int2Rat(1))),
                          pnl_series[Len(pnl_series)])

\* notional 2, LVaR = IVaR = 9/10, first liquidation 1, last pnl -1: the
\* bounds are 1/5 and 1/5 (a same-sign LevI would be -1/5)
C2_Witness ==
    /\ ret.op = "leverages" /\ ret.status = "ok"
    /\ ret.l_var = Some(Rat(9, 10)) /\ ret.i_var = Some(Rat(9, 10))
    /\ notional = Int2Rat(2)
    /\ liquidation_series[1] = Int2Rat(1)
    /\ pnl_series[Len(pnl_series)] = Int2Rat(-1)
    /\ ret.l_lev = Rat(1, 5) /\ ret.i_lev = Rat(1, 5)

(***************************************************************************)
(* C3.  As constructed (no sample dropped yet), the cached ratio series    *)
(* are liquidation[t] = (margin[first] - liquidation_series[t]) /          *)
(* margin[first] and insolvency[t] = (pnl_series[t] + margin[first]) /     *)
(* margin[first] for every t; the worked example gives                     *)
(* [0.10, 0.15, 0.20, 0.25, 0.30] and [1.00, 0.95, 0.90, 0.85, 0.80].      *)
(***************************************************************************)
C3_RatioSeries ==
    /\ Len(liquidation) = Len(liquidation_series)
       => \A t \in 1..Len(liquidation_series) :
             liquidation[t] = Div(Sub(margin_series[1], liquidation_series[t]),
                                  margin_series[1])
    /\ Len(insolvency) = Len(pnl_series)
       => \A t \in 1..Len(pnl_series) :
             insolvency[t] = Div(Add(pnl_series[t], margin_series[1]),
                                 margin_series[1])
    /\ df_arg = ExampleTable
       => /\ liquidation = <<Rat(10, 100), Rat(15, 100), Rat(20, 100),
                             Rat(25, 100), Rat(30, 100)>>
          /\ insolvency = <<Rat(100, 100), Rat(95, 100), Rat(90, 100),
                            Rat(85, 100), Rat(80, 100)>>

\* a freshly constructed two-row instance whose margin column is 2, 3
C3_Witness ==
    /\ ret.op = "none"
    /\ Len(liquidation_series) = 2
    /\ margin_series = <<Int2Rat(2), Int2Rat(3)>>
    /\ liquidation_series = <<Int2Rat(1), Int2Rat(0)>>
    /\ pnl_series = <<Int2Rat(0), Int2Rat(-1)>>
    /\ liquidation = <<Rat(1, 2), Int2Rat(1)>>
    /\ insolvency = <<Int2Rat(1), Rat(1, 2)>>

(***************************************************************************)
(* C4.  Constructed with a pool size P smaller than the table's length,    *)
(* the three raw series, the two ratio series and the pnl baseline hold    *)
(* exactly the first P entries of the table; with no pool size they hold   *)
(* the full table.                                                         *)
(***************************************************************************)
C4_PoolSizeTruncates ==
    /\ liquidation_series = SeqHead(df_arg.liquidation, pool_size)
    /\ margin_series = SeqHead(df_arg.margin, pool_size)
    /\ pnl_series = SeqHead(df_arg.pnl, pool_size)
    /\ Len(liquidation) <= pool_size
    /\ Len(insolvency) <= pool_size
    /\ LET kept == SeqHead(df_arg.pnl, pool_size)
       IN  pnl_series[Len(pnl_series)] = kept[Len(kept)]

(***************************************************************************)
(* C5.  For a confidence level outside {95, 99}, lvar_and_ivar fails with  *)
(* a KeyError and returns no VaR pair, whether or not replicates are       *)
(* supplied; nothing is generated on the way.                              *)
(***************************************************************************)
C5_UnsupportedAlphaFails ==
    (ret.op = "lvar_and_ivar" /\ ret.alpha \notin {95, 99})
    => /\ ret.status = "KeyError"
       /\ "l_var" \notin DOMAIN ret
       /\ "i_var" \notin DOMAIN ret
       /\ ~ret.generated

\* alpha = 90 with both replicate lists supplied
C5_Witness ==
    /\ ret.op = "lvar_and_ivar"
    /\ ret.alpha = 90
    /\ ret.l_rep # None /\ ret.i_rep # None
    /\ ret.status = "KeyError"

(***************************************************************************)
(* C6 as claimed.  On the same pair of supplied replicate lists, each      *)
(* component of the VaR pair at alpha = 99 is at most the component at     *)
(* alpha = 95, and strictly lower when the standard deviation of the       *)
(* replicate means is positive.                                            *)
(***************************************************************************)
\* what lvar_and_ivar(95, l_rep, i_rep) returns for the replicate lists of ret
AtAlpha95 ==
    lvar_and_ivar(liquidation, insolvency, 95, ret.l_rep, ret.i_rep,
                  LowDraw, LowDraw, Int2Rat(0), Int2Rat(0))

\* dist.std() > 0 for the means of the replicates
SigmaPositive(reps) ==
    LET dist == ReplicateMeans(reps)
    IN  IF AllNear(dist) THEN NearVariance(Ulps(dist)).n > 0
        ELSE Variance(dist).n > 0

C6_VaRMonotone ==
    (/\ ret.op = "lvar_and_ivar" /\ ret.status = "ok"
     /\ ret.alpha = 99 /\ ~ret.generated)
    => /\ AtAlpha95.status = "ok"
       /\ XLeq(ret.l_var, AtAlpha95.l_var)
       /\ XLeq(ret.i_var, AtAlpha95.i_var)
       /\ SigmaPositive(ret.l_rep.v) => XLess(ret.l_var, AtAlpha95.l_var)
       /\ SigmaPositive(ret.i_rep.v) => XLess(ret.i_var, AtAlpha95.i_var)

(***************************************************************************)
(* C6 as the code has it.  Each component of the VaR pair at alpha = 99 is *)
(* at most the component at alpha = 95, and strictly lower when the gap    *)
(* (Z(99) - Z(95))*sigma = 0.62*sigma is at least two spacings of the      *)
(* doubles at the magnitude of the results.  A positive sigma below that   *)
(* can be rounded away: both results are then the same double.             *)
(***************************************************************************)
\* 0.62*sigma >= 2 spacings: among doubles next to 3/2 in units of u, and
\* for every positive sigma of the rational scale
GapAboveSpacing(reps) ==
    LET dist == ReplicateMeans(reps)
        gap == Sub(z_scores[99], z_scores[95])
    IN  IF AllNear(dist)
        THEN Leq(Int2Rat(4), Mul(Mul(gap, gap), NearVariance(Ulps(dist))))
        ELSE Variance(dist).n > 0

C6_VaRMonotoneAboveSpacing ==
    (/\ ret.op = "lvar_and_ivar" /\ ret.status = "ok"
     /\ ret.alpha = 99 /\ ~ret.generated)
    => /\ AtAlpha95.status = "ok"
       /\ XLeq(ret.l_var, AtAlpha95.l_var)
       /\ XLeq(ret.i_var, AtAlpha95.i_var)
       /\ GapAboveSpacing(ret.l_rep.v) => XLess(ret.l_var, AtAlpha95.l_var)
       /\ GapAboveSpacing(ret.i_rep.v) => XLess(ret.i_var, AtAlpha95.i_var)

\* alpha = 99; liquidation means 3/2, 3/2, 3/2 + u: sigma = 0.577u > 0 and both
\* VaR values round to 3/2 - u; insolvency means 3/2, 3/2 + 8u: sigma = 4u and
\* the VaR at 99 is strictly lower
C6_Witness ==
    /\ ret.op = "lvar_and_ivar" /\ ret.status = "ok" /\ ret.alpha = 99
    /\ ~ret.generated
    /\ ReplicateMeans(ret.l_rep.v) = <<Near(0), Near(0), Near(1)>>
    /\ SigmaPositive(ret.l_rep.v)
    /\ Rounded(ret.l_var) = Near(-1) /\ Rounded(AtAlpha95.l_var) = Near(-1)
    /\ ReplicateMeans(ret.i_rep.v) = <<Near(0), Near(MaxUlps)>>
    /\ GapAboveSpacing(ret.i_rep.v)
    /\ XLess(ret.i_var, AtAlpha95.i_var)

(***************************************************************************)
(* C7.  generate_replicates(N) returns N replicates for each series, each  *)
(* as long as the (cleaned, jittered) series it resamples, whatever the    *)
(* block size and the random block starts.                                 *)
(***************************************************************************)
C7_ReplicateShape ==
    (ret.op = "generate_replicates" /\ ret.status = "ok")
    => /\ Len(ret.l_rep) = ret.N
       /\ Len(ret.i_rep) = ret.N
       /\ \A k \in 1..Len(ret.l_rep) : Len(ret.l_rep[k]) = Len(ret.liq)
       /\ \A k \in 1..Len(ret.i_rep) : Len(ret.i_rep[k]) = Len(ret.ins)

\* five samples in blocks of two: the third block overshoots and is cut
C7_Witness ==
    /\ ret.op = "generate_replicates" /\ ret.status = "ok"
    /\ ret.N = 2
    /\ Len(ret.liq) = 5 /\ ret.block_l = 2
    /\ NumBlocks(5, ret.block_l) * ret.block_l > 5
    /\ Len(ret.l_rep) = 2 /\ Len(ret.l_rep[2]) = 5

(***************************************************************************)
(* C8.  Every block size generate_replicates hands to the bootstrapper is  *)
(* an integer >= 1, for every estimate the estimator returns (0,           *)
(* non-integers and non-positive estimates included), also when the call   *)
(* fails after the first block size was handed.                            *)
(***************************************************************************)
C8_BlockSizePositive ==
    ret.op = "generate_replicates"
    => \A k \in 1..Len(ret.handed) : ret.handed[k] \in Nat /\ ret.handed[k] >= 1

(***************************************************************************)
(* C9 as claimed.  Two generate_replicates calls on the same instance with *)
(* the same N return identical replicate lists.                            *)
(***************************************************************************)
TwoCalls ==
    /\ ret.op = "generate_replicates" /\ ret.status = "ok"
    /\ prev.op = "generate_replicates" /\ prev.status = "ok"
    /\ ret.N = prev.N

C9_TwoCallsIdentical ==
    TwoCalls => (ret.l_rep = prev.l_rep /\ ret.i_rep = prev.i_rep)

(***************************************************************************)
(* C9 as amended.  Two generate_replicates calls on the same instance with *)
(* the same N return identical replicate lists when both calls draw the    *)
(* same jitter offsets.                                                    *)
(***************************************************************************)
C9_IdenticalUnderSameJitter ==
    (TwoCalls /\ ret.ja = prev.ja /\ ret.jb = prev.jb)
    => (ret.l_rep = prev.l_rep /\ ret.i_rep = prev.i_rep)

\* two calls with the same draws whose second replicate list repeats the first
C9_Witness ==
    /\ TwoCalls /\ ret.ja = prev.ja /\ ret.jb = prev.jb
    /\ ret.ja # ret.jb
    /\ ret.N = 2 /\ Len(ret.liq) = 2 /\ Len(ret.ins) = 2
    /\ ret.l_rep = prev.l_rep /\ ret.i_rep = prev.i_rep
    /\ ret.stream_end > StreamStart

(***************************************************************************)
(* C10 as claimed.  Every offset get_random returns is strictly positive   *)
(* and lies within [1e-6, 9e-3].                                           *)
(***************************************************************************)
C10_OffsetWithinNineThousandths ==
    ret.op = "get_random"
    => /\ Less(Int2Rat(0), ret.value)
       /\ Leq(Rat(1, 1000000), ret.value)
       /\ Leq(ret.value, Rat(9, 1000))

(***************************************************************************)
(* C10 as amended.  Every offset get_random returns is strictly positive   *)
(* and lies within [1e-6, 1e-2).                                           *)
(***************************************************************************)
C10_OffsetBelowOneHundredth ==
    ret.op = "get_random"
    => /\ Less(Int2Rat(0), ret.value)
       /\ Leq(Rat(1, 1000000), ret.value)
       /\ Less(ret.value, Rat(1, 100))

\* exponent -2 and random() = 0.9: the offset 0.0091 exceeds 9e-3
C10_Witness ==
    /\ ret.op = "get_random"
    /\ ret.exp = -2 /\ ret.r = Rat(9, 10)
    /\ ret.value = Rat(91, 10000)

(***************************************************************************)
(* C11.  No instance is constructed from a table whose first margin is 0:  *)
(* the constructor fails instead of caching ratio series with infinite or  *)
(* NaN entries.                                                            *)
(***************************************************************************)
HasNonFinite(s) == \E t \in 1..Len(s) : ~IsFinite(s[t])

C11_ZeroMarginFails ==
    ~(/\ margin_series[1] = Int2Rat(0)
      /\ (HasNonFinite(liquidation) \/ HasNonFinite(insolvency)))

(***************************************************************************)
(* C12.  When both bootstrappers have been built (both block sizes were    *)
(* handed) and the block size of a series is at least its length, the      *)
(* bootstrap of that series, once it is run, does not fail (it returns its *)
(* N replicates) and every replicate of that series is one rotation of the *)
(* jittered series:                                                        *)
(* replicate[k] = series[(s + k) mod L] for some start s and all k.        *)
(***************************************************************************)
IsRotation(rep, x) ==
    /\ Len(rep) = Len(x)
    /\ \E start \in 0..(Len(x) - 1) :
          \A k \in 0..(Len(x) - 1) : rep[k + 1] = x[((start + k) % Len(x)) + 1]

NotNaN(x) == ~IsNaN(x)

NoNaN(s) == \A t \in 1..Len(s) : NotNaN(s[t])

C13_CleanupIdempotent ==
    [][/\ liquidation' \in {liquidation, SelectSeq(liquidation, NotNaN)}
       /\ insolvency' \in {insolvency, SelectSeq(insolvency, NotNaN)}
       /\ ret'.op = "generate_replicates"
          => /\ liquidation' = SelectSeq(liquidation, NotNaN)
             /\ insolvency' = SelectSeq(insolvency, NotNaN)
       /\ NoNaN(liquidation) => liquidation' = liquidation
       /\ NoNaN(insolvency) => insolvency' = insolvency]_vars

\* a first generate_replicates call dropped a sample and jittered a copy; the
\* leverages call after it ran the whole pipeline again and left the cached
\* series as the first call left them
C13_Witness ==
    /\ prev.op = "generate_replicates"
    /\ Len(prev.liquidation) < Len(liquidation_series)
    /\ prev.liq # prev.liquidation
    /\ ret.op = "leverages" /\ ret.computed /\ ret.status = "ok"
    /\ liquidation = prev.liquidation
    /\ insolvency = prev.insolvency

(***************************************************************************)
(* C14 as claimed.  lvar_and_ivar runs generate_replicates exactly when    *)
(* l_rep or i_rep is absent, and then uses the generated replicates for    *)
(* both series; leverages runs lvar_and_ivar exactly when l_var or i_var   *)
(* is absent, and then uses the computed pair for both bounds; with both   *)
(* supplied nothing is recomputed and the cached series stay as they were. *)
(***************************************************************************)
Absent(a, b) == a = None \/ b = None

\* a VaR or leverage value that comes from freshly generated replicates
FromGenerated(x) == x.kind = "aff" /\ Len(x.dist) = DefaultNReplicates

CacheUnchanged == liquidation' = liquidation /\ insolvency' = insolvency

LeveragesRecomputesIffAbsent ==
    ret'.op = "leverages"
    => /\ ret'.computed <=> Absent(ret'.l_var, ret'.i_var)
       /\ (ret'.computed /\ ret'.status = "ok")
          => (FromGenerated(ret'.l_lev) /\ FromGenerated(ret'.i_lev))
       /\ ~Absent(ret'.l_var, ret'.i_var) => CacheUnchanged

LvarAndIvarRecomputesIffAbsent ==
    /\ ret'.generated <=> Absent(ret'.l_rep, ret'.i_rep)
    /\ (ret'.generated /\ ret'.status = "ok")
       => (FromGenerated(ret'.l_var) /\ FromGenerated(ret'.i_var))
    /\ ~Absent(ret'.l_rep, ret'.i_rep) => CacheUnchanged

C14_RecomputesIffAbsent ==
    [][/\ ret'.op = "lvar_and_ivar" => LvarAndIvarRecomputesIffAbsent
       /\ LeveragesRecomputesIffAbsent]_vars

(***************************************************************************)
(* C14 as amended.  The same, for lvar_and_ivar calls with a supported     *)
(* confidence level (95 or 99); with any other alpha the call fails before *)
(* anything is generated, whether or not a replicate list is absent.       *)
(***************************************************************************)
C14_RecomputesIffAbsentForSupportedAlpha ==
    [][/\ (ret'.op = "lvar_and_ivar" /\ ret'.alpha \in DOMAIN z_scores)
          => LvarAndIvarRecomputesIffAbsent
       /\ (ret'.op = "lvar_and_ivar" /\ ret'.alpha \notin DOMAIN z_scores)
          => (~ret'.generated /\ CacheUnchanged)
       /\ LeveragesRecomputesIffAbsent]_vars

\* leverages with l_var supplied and i_var absent on an instance with a NaN
\* sample: the pipeline ran, dropped the sample, and both bounds come from the
\* generated replicates
C14_Witness ==
    /\ ret.op = "leverages" /\ ret.status = "ok"
    /\ ret.l_var = Some(Rat(9, 10)) /\ ret.i_var = None
    /\ ret.computed
    /\ FromGenerated(ret.l_lev) /\ FromGenerated(ret.i_lev)
    /\ Len(liquidation) < Len(liquidation_series)

====
